---- MODULE Spec2Model ----
(***************************************************************************)
(* Procedural world generator of src/world_generator.py: the template      *)
(* method WorldGenerator.generate_world and its three concrete generators  *)
(* (Grass, Desert, Ice).  One run of generate_world is one behaviour: the  *)
(* stages follow each other through pc, every loop iteration of a stage is *)
(* one action.  The `random` module is modelled as a seeded stream (rng):  *)
(* Init draws the seed, every call of random.randint / random.random /     *)
(* random.choice / random.sample consumes the stream in the order in which *)
(* the code makes the calls.  Coordinates are the integers of the code, y  *)
(* grows downward.                                                         *)
(***************************************************************************)
EXTENDS Integers, Sequences, FiniteSets, TLC

\* ---------------------------------------------------------------------
\* Module constants (src/world_generator.py:10-26)
\* ---------------------------------------------------------------------
SPACE_BETWEEN_CHECKPOINTS == 800
NUMBER_OF_CHECKPOINTS_PER_LEVEL == 3
MAX_JUMP_DISTANCE == 250
MAX_JUMP_HEIGHT == 130
CHECKPOINT_SAFE_RADIUS == 250
MIN_VERTICAL_SPACING == 80
MIN_HORIZONTAL_SPACING == 100
ENEMY_SPAWN_CHANCE == 35
ENEMY_SPAWN_CHANCE_GROUND == 20
POWERUP_MIN_DISTANCE_CHECKPOINT == 150
POWERUP_MIN_DISTANCE_GOAL == 250
POWERUP_MIN_DISTANCE_ENEMY == 120
POWERUP_MIN_DISTANCE_POWERUP == 200
POWERUP_SAFE_ZONE == 600

\* ---------------------------------------------------------------------
\* Bounds of the model
\* ---------------------------------------------------------------------
\* number of seeds of the random stream explored per (biome, width, height)
NSeeds == 16
\* half-width of the window of argument values around each threshold of a
\* pure function
FnSpan == 2

\* arguments of generate_world(width, height): the shipped world
\* (GameConfig.DEFAULT_WORLD_WIDTH x DEFAULT_HEIGHT), a degenerate narrow
\* world, a wider world, and a low world
Widths == {400, 3000, 3500}
Heights == {380, 600}
Biomes == {"Grass", "Desert", "Ice"}

VARIABLES biome, width, height, rng, pc, name, checkpoints, platforms, spikes, goal, enemies, powerups, music, seg, attempts, added, target, sel, call, ret

vars == <<biome, width, height, rng, pc, name, checkpoints, platforms, spikes, goal, enemies, powerups, music, seg, attempts, added, target, sel, call, ret>>

world_data == <<name, checkpoints, platforms, spikes, goal, enemies, powerups, music>>

locals == <<seg, attempts, added, target, sel>>

args == <<biome, width, height>>

fnvars == <<call, ret>>

\* ---------------------------------------------------------------------
\* Arithmetic helpers
\* ---------------------------------------------------------------------
Abs(a) == IF a < 0 THEN -a ELSE a

Min(a, b) == IF a < b THEN a ELSE b

Max(a, b) == IF a > b THEN a ELSE b

\* sw values in 0..1500 for which the double product sw * 0.35 lies just
\* below the exact integer sw*35/100, so that int() truncates one lower
Float35Low == {180, 340, 360, 660, 680, 700, 720, 1300, 1320, 1340, 1360, 1380, 1400, 1420, 1440, 1460}

\* int(sw * pct/100) of Python: the float product truncated toward zero
IntPct(sw, pct) ==
    LET n == Abs(sw) * pct
        q == IF pct = 35 /\ Abs(sw) \in Float35Low THEN (n \div 100) - 1 ELSE n \div 100
    IN  IF sw < 0 THEN -q ELSE q

\* ---------------------------------------------------------------------
\* The random stream
\* ---------------------------------------------------------------------
\* next state of the generator behind the `random` module
Nxt(s) == (75 * s + 74) % 65537

\* random.randint(a, b) read off stream state s (a <= b)
RandInt(s, a, b) == a + ((s * (b - a + 1)) \div 65537)

\* random.random() < pct/100 read off stream state s
RandomLess(s, pct) == s * 100 < pct * 65537

\* random.random() > pct/100 read off stream state s
RandomGreater(s, pct) == s * 100 > pct * 65537

Seeds == {(k * 7919) % 65537 : k \in 1..NSeeds}

R1 == Nxt(rng)

R2 == Nxt(R1)

R3 == Nxt(R2)

R4 == Nxt(R3)

RECURSIVE SampleRec(_, _, _, _)
\* random.sample on a population of at most 21 elements: k draws from a
\* pool whose drawn slot is refilled with the last live element
SampleRec(pool, m, k, s) ==
    IF k = 0 THEN [res |-> <<>>, rng |-> s]
    ELSE LET s1 == Nxt(s)
             j == RandInt(s1, 0, m - 1) + 1
             rest == SampleRec([pool EXCEPT ![j] = pool[m]], m - 1, k - 1, s1)
         IN  [res |-> <<pool[j]>> \o rest.res, rng |-> rest.rng]

Sample(pool, k, s) == SampleRec(pool, Len(pool), k, s)

\* list(range(a, b))
RangeSeq(a, b) == [i \in 1..Max(0, b - a) |-> a + i - 1]

\* ---------------------------------------------------------------------
\* Auxiliary functions of WorldGenerator
\* ---------------------------------------------------------------------
rectangles_overlap(x1, y1, w1, h1, x2, y2, w2, h2) ==
    ~(x1 + w1 < x2 \/ x2 + w2 < x1 \/ y1 + h1 < y2 \/ y2 + h2 < y1)

\* variant that compares the distance against half the radius
is_near_checkpoint_half_radius(x, y, cps, radius) ==
    \E i \in 1..Len(cps) :
        4 * (((x - cps[i].x) * (x - cps[i].x)) + ((y - cps[i].y) * (y - cps[i].y))) < radius * radius

\* ((dx)^2 + (dy)^2) ** 0.5 < radius, on integers
is_near_checkpoint(x, y, cps, radius) ==
    \E i \in 1..Len(cps) :
        (x - cps[i].x) * (x - cps[i].x) + (y - cps[i].y) * (y - cps[i].y) < radius * radius

\* variant that bounds the climb: a target more than MAX_JUMP_HEIGHT above
\* the start is out of reach, a lower one is always in reach
is_platform_reachable_climb_bounded(from_x, from_y, to_x, to_y, to_width) ==
    LET horizontal_dist == Abs(to_x - from_x)
        vertical_dist == from_y - to_y
    IN  IF horizontal_dist > MAX_JUMP_DISTANCE THEN FALSE
        ELSE IF vertical_dist > MAX_JUMP_HEIGHT THEN FALSE
        ELSE TRUE

is_platform_reachable(from_x, from_y, to_x, to_y, to_width) ==
    LET horizontal_dist == Abs(to_x - from_x)
        vertical_dist == from_y - to_y
    IN  IF horizontal_dist > MAX_JUMP_DISTANCE THEN FALSE
        ELSE IF vertical_dist < 0 /\ Abs(vertical_dist) > MAX_JUMP_HEIGHT THEN FALSE
        ELSE TRUE

is_on_surface(spike_x, spike_y, spike_width, plats, ground_y) ==
    LET spike_bottom == spike_y + spike_width
    IN  \/ Abs(spike_bottom - ground_y) < 5
        \/ \E i \in 1..Len(plats) :
              /\ Abs(spike_bottom - plats[i].y) < 5
              /\ spike_x >= plats[i].x
              /\ spike_x <= plats[i].x + plats[i].width

Rect(x, y, w, h) == [x |-> x, y |-> y, width |-> w, height |-> h]

\* ---------------------------------------------------------------------
\* Per-biome parameters of generate_platforms
\* ---------------------------------------------------------------------
GrassPlatformCfg ==
    [first |-> [dx |-> 150, dy |-> 150, w |-> 150, h |-> 20],
     second |-> [dx |-> 350, dy |-> 220, w |-> 130, h |-> 20],
     start_generation |-> 600, end_offset |-> 400, num_segments |-> 6,
     min_platforms |-> 1, max_platforms |-> 3, max_attempts |-> 20,
     margin_left |-> 10, margin_right |-> 15, min_available |-> 100,
     y_high |-> 280, y_low |-> 130, w_min |-> 130, w_max |-> 180, platform_height |-> 20,
     band |-> 200, similar |-> 40, min_horizontal |-> MIN_HORIZONTAL_SPACING,
     window |-> 350]

DesertPlatformCfg ==
    [first |-> [dx |-> 180, dy |-> 180, w |-> 120, h |-> 18],
     second |-> [dx |-> 380, dy |-> 240, w |-> 110, h |-> 18],
     start_generation |-> 600, end_offset |-> 400, num_segments |-> 7,
     min_platforms |-> 1, max_platforms |-> 2, max_attempts |-> 25,
     margin_left |-> 15, margin_right |-> 25, min_available |-> 80,
     y_high |-> 300, y_low |-> 130, w_min |-> 100, w_max |-> 140, platform_height |-> 18,
     band |-> 220, similar |-> 40, min_horizontal |-> MIN_HORIZONTAL_SPACING,
     window |-> 350]

\* variant of the Ice configuration with platforms as wide as the Grass ones
IcePlatformCfgWide ==
    [first |-> [dx |-> 220, dy |-> 200, w |-> 85, h |-> 15],
     second |-> [dx |-> 450, dy |-> 280, w |-> 80, h |-> 15],
     start_generation |-> 700, end_offset |-> 400, num_segments |-> 8,
     min_platforms |-> 1, max_platforms |-> 1, max_attempts |-> 30,
     margin_left |-> 25, margin_right |-> 35, min_available |-> 60,
     y_high |-> 350, y_low |-> 140, w_min |-> 130, w_max |-> 180, platform_height |-> 15,
     band |-> 270, similar |-> 30, min_horizontal |-> 130,
     window |-> 400]

IcePlatformCfg ==
    [first |-> [dx |-> 220, dy |-> 200, w |-> 85, h |-> 15],
     second |-> [dx |-> 450, dy |-> 280, w |-> 80, h |-> 15],
     start_generation |-> 700, end_offset |-> 400, num_segments |-> 8,
     min_platforms |-> 1, max_platforms |-> 1, max_attempts |-> 30,
     margin_left |-> 25, margin_right |-> 35, min_available |-> 60,
     y_high |-> 350, y_low |-> 140, w_min |-> 65, w_max |-> 95, platform_height |-> 15,
     band |-> 270, similar |-> 30, min_horizontal |-> 130,
     window |-> 400]

PCfg == CASE biome = "Grass" -> GrassPlatformCfg [] biome = "Desert" -> DesertPlatformCfg [] OTHER -> IcePlatformCfg

ground_y == height - 50

segment_width == ((width - PCfg.end_offset) - PCfg.start_generation) \div PCfg.num_segments

segment_start == PCfg.start_generation + (seg * segment_width)

segment_end == segment_start + segment_width

\* ---------------------------------------------------------------------
\* Specification of one run of generate_world
\* ---------------------------------------------------------------------
NoCall == [fn |-> "none", from_x |-> 0, from_y |-> 0, to_x |-> 0, to_y |-> 0, to_width |-> 0]

Init ==
    /\ biome \in Biomes
    /\ width \in Widths
    /\ height \in Heights
    /\ rng \in Seeds
    /\ pc = "start"
    /\ name = ""
    /\ checkpoints = <<>>
    /\ platforms = <<>>
    /\ spikes = <<>>
    /\ goal = <<>>
    /\ enemies = <<>>
    /\ powerups = <<>>
    /\ music = ""
    /\ seg = 0
    /\ attempts = 0
    /\ added = 0
    /\ target = 0
    /\ sel = <<>>
    /\ call = NoCall
    /\ ret = FALSE

get_world_name == CASE biome = "Grass" -> "Mundo de Pasto" [] biome = "Desert" -> "Mundo Desertico" [] OTHER -> "Mundo de Hielo"

\* generate_world, lines 34-47: world_data initialised, colors and name set
DefineColorsAndName ==
    /\ pc = "start"
    /\ name' = get_world_name
    /\ pc' = "checkpoints"
    /\ UNCHANGED <<args, rng, checkpoints, platforms, spikes, goal, enemies, powerups, music, locals, fnvars>>

\* variant of generate_checkpoints that counts from zero
generate_checkpoints_from_zero(h) ==
    [i \in 1..NUMBER_OF_CHECKPOINTS_PER_LEVEL |-> [x |-> (i - 1) * SPACE_BETWEEN_CHECKPOINTS, y |-> h - 150]]

generate_checkpoints(h) ==
    [i \in 1..NUMBER_OF_CHECKPOINTS_PER_LEVEL |-> [x |-> i * SPACE_BETWEEN_CHECKPOINTS, y |-> h - 150]]

GenerateCheckpoints ==
    /\ pc = "checkpoints"
    /\ checkpoints' = generate_checkpoints(height)
    /\ pc' = "platforms"
    /\ UNCHANGED <<args, rng, name, platforms, spikes, goal, enemies, powerups, music, locals, fnvars>>

\* ---------------------------------------------------------------------
\* generate_platforms
\* ---------------------------------------------------------------------
\* variant of Ground that ends where the generation window ends
GroundShort == Rect(0, height - 50, width - 400, 50)

Ground == Rect(0, height - 50, width, 50)

first_platform == Rect(PCfg.first.dx, height - PCfg.first.dy, PCfg.first.w, PCfg.first.h)

second_platform == Rect(PCfg.second.dx, height - PCfg.second.dy, PCfg.second.w, PCfg.second.h)

\* variant in which the second starting platform is tested only when the
\* first one was committed
StartingPlatformsChained ==
    LET spawn_x == 100
        spawn_y == 100
        p1 == IF is_platform_reachable(spawn_x, spawn_y, first_platform.x, first_platform.y, first_platform.width)
              THEN <<first_platform>> ELSE <<>>
        p2 == IF p1 # <<>> /\ is_platform_reachable(first_platform.x, first_platform.y, second_platform.x, second_platform.y, second_platform.width)
              THEN <<second_platform>> ELSE <<>>
    IN  <<Ground>> \o p1 \o p2

\* the ground and the starting platforms, in the order the code appends them
StartingPlatforms ==
    LET spawn_x == 100
        spawn_y == 100
        p1 == IF is_platform_reachable(spawn_x, spawn_y, first_platform.x, first_platform.y, first_platform.width)
              THEN <<first_platform>> ELSE <<>>
        p2 == IF is_platform_reachable(first_platform.x, first_platform.y, second_platform.x, second_platform.y, second_platform.width)
              THEN <<second_platform>> ELSE <<>>
    IN  <<Ground>> \o p1 \o p2

PlatformsBegin ==
    /\ pc = "platforms"
    /\ platforms' = StartingPlatforms
    /\ seg' = 0
    /\ pc' = "seg_begin"
    /\ UNCHANGED <<args, rng, name, checkpoints, spikes, goal, enemies, powerups, music, attempts, added, target, sel, fnvars>>

\* head of the segment loop: the draw of num_platforms (Grass, Desert) or
\* the 85% gate (Ice); after the last segment the next pass starts
SegmentBegin ==
    /\ pc = "seg_begin"
    /\ IF seg >= PCfg.num_segments
       THEN /\ pc' = IF biome = "Desert" THEN "high_select" ELSE "final"
            /\ UNCHANGED <<rng, seg, attempts, added, target>>
       ELSE /\ rng' = R1
            /\ attempts' = 0
            /\ added' = 0
            /\ IF biome = "Ice"
               THEN IF RandomLess(R1, 85)
                    THEN target' = 1 /\ pc' = "seg_try" /\ seg' = seg
                    ELSE target' = 0 /\ pc' = "seg_begin" /\ seg' = seg + 1
               ELSE /\ target' = RandInt(R1, PCfg.min_platforms, PCfg.max_platforms)
                    /\ pc' = "seg_try"
                    /\ seg' = seg
    /\ UNCHANGED <<args, name, checkpoints, platforms, spikes, goal, enemies, powerups, music, sel, fnvars>>

\* VALIDACION 2 of the distributed pass: overlap with any committed platform
OverlapsPlatform(x, y, w, h, plats) ==
    \E i \in 1..Len(plats) :
        rectangles_overlap(x, y, w, h, plats[i].x, plats[i].y, plats[i].width, plats[i].height)

\* VALIDACION 3 with the band tier left out: only the similar-height tier
TooCloseSimilarHeightOnly(x, y, plats) ==
    \E i \in 1..Len(plats) :
        /\ Abs(y - plats[i].y) < PCfg.similar
        /\ Abs(x - plats[i].x) < PCfg.min_horizontal

\* VALIDACION 3 of the distributed pass: the two-tier spacing rule
TooClose(x, y, plats) ==
    \E i \in 1..Len(plats) :
        LET horizontal_distance == Abs(x - plats[i].x)
            vertical_distance == Abs(y - plats[i].y)
        IN  \/ horizontal_distance < PCfg.band /\ vertical_distance < MIN_VERTICAL_SPACING
            \/ vertical_distance < PCfg.similar /\ horizontal_distance < PCfg.min_horizontal

\* "Desde el suelo" of VALIDACION 4
ReachableFromGround(x, y, w) ==
    IF biome = "Grass"
    THEN is_platform_reachable(x, height - 50, x, y, w)
    ELSE (height - 50) - y <= MAX_JUMP_HEIGHT

\* "Desde plataforma previa": from the right edge of a platform in the window
ReachableFromPrevious(x, y, w, plats) ==
    \E i \in 1..Len(plats) :
        /\ biome = "Ice" => plats[i].y # height - 50
        /\ plats[i].x < x + PCfg.window
        /\ is_platform_reachable(plats[i].x + plats[i].width, plats[i].y, x, y, w)

\* the bidirectional alternative: from the left edge of a platform nearby
ReachableFromNearby(x, y, w, plats) ==
    \E i \in 1..Len(plats) :
        /\ biome = "Ice" => plats[i].y # height - 50
        /\ IF biome = "Ice"
           THEN Abs(plats[i].x - x) < 400
           ELSE plats[i].x > x - 350 /\ plats[i].x < x + segment_width
        /\ is_platform_reachable(plats[i].x, plats[i].y, x, y, w)

\* VALIDACION 4 with a fallback: a candidate with no platform in its window
\* is taken as reachable
IsReachableWithFallback(x, y, w, plats) ==
    \/ ReachableFromGround(x, y, w)
    \/ ReachableFromPrevious(x, y, w, plats)
    \/ ReachableFromNearby(x, y, w, plats)
    \/ \A i \in 1..Len(plats) : ~(plats[i].x < x + PCfg.window /\ plats[i].x > x - PCfg.window)

\* VALIDACION 4 of the distributed pass
IsReachable(x, y, w, plats) ==
    \/ ReachableFromGround(x, y, w)
    \/ ReachableFromPrevious(x, y, w, plats)
    \/ ReachableFromNearby(x, y, w, plats)

\* the four validations a candidate of the distributed pass must pass
CandidateValid(x, y, w, plats) ==
    /\ ~is_near_checkpoint(x, y, checkpoints, CHECKPOINT_SAFE_RADIUS)
    /\ ~OverlapsPlatform(x, y, w, PCfg.platform_height, plats)
    /\ ~TooClose(x, y, plats)
    /\ IsReachable(x, y, w, plats)

\* the candidate the next iteration of the while loop draws: x, y and
\* platform_width, in the order of the three randint calls
platform_candidate ==
    LET margin_left == IntPct(segment_width, PCfg.margin_left)
        margin_right == IntPct(segment_width, PCfg.margin_right)
    IN  [x |-> RandInt(R1, segment_start + margin_left, segment_end - margin_right),
         y |-> RandInt(R2, height - PCfg.y_high, height - PCfg.y_low),
         width |-> RandInt(R3, PCfg.w_min, PCfg.w_max)]

\* the while loop of a segment is about to draw a candidate
DrawsCandidate ==
    /\ pc = "seg_try"
    /\ added < target /\ attempts < PCfg.max_attempts
    /\ segment_width - IntPct(segment_width, PCfg.margin_left) - IntPct(segment_width, PCfg.margin_right) >= PCfg.min_available

\* one iteration of the while loop of a segment
PlatformAttempt ==
    /\ pc = "seg_try"
    /\ added < target /\ attempts < PCfg.max_attempts
    /\ attempts' = attempts + 1
    /\ LET margin_left == IntPct(segment_width, PCfg.margin_left)
           margin_right == IntPct(segment_width, PCfg.margin_right)
           available_width == segment_width - margin_left - margin_right
           x == RandInt(R1, segment_start + margin_left, segment_end - margin_right)
           y == RandInt(R2, height - PCfg.y_high, height - PCfg.y_low)
           platform_width == RandInt(R3, PCfg.w_min, PCfg.w_max)
       IN  IF available_width < PCfg.min_available
           THEN /\ seg' = seg + 1
                /\ pc' = "seg_begin"
                /\ UNCHANGED <<rng, platforms, added>>
           ELSE /\ rng' = R3
                /\ IF CandidateValid(x, y, platform_width, platforms)
                   THEN /\ platforms' = Append(platforms, Rect(x, y, platform_width, PCfg.platform_height))
                        /\ added' = added + 1
                   ELSE UNCHANGED <<platforms, added>>
                /\ UNCHANGED <<seg, pc>>
    /\ UNCHANGED <<args, name, checkpoints, spikes, goal, enemies, powerups, music, target, sel, fnvars>>

\* the while condition of a segment is false: on to the next segment
SegmentEnd ==
    /\ pc = "seg_try"
    /\ ~(added < target /\ attempts < PCfg.max_attempts)
    /\ seg' = seg + 1
    /\ pc' = "seg_begin"
    /\ UNCHANGED <<args, rng, world_data, attempts, added, target, sel, fnvars>>

\* ---------------------------------------------------------------------
\* Desert: the high floating platforms (pass 4 of Desert)
\* ---------------------------------------------------------------------
\* num_high_platforms is drawn, then the segments are sampled
HighSelect ==
    /\ pc = "high_select"
    /\ LET num_high_platforms == RandInt(R1, 2, 3)
           eligible_segments == RangeSeq(1, PCfg.num_segments - 1)
           smp == Sample(eligible_segments, Min(num_high_platforms, Len(eligible_segments)), R1)
       IN  IF PCfg.num_segments > 2
           THEN sel' = smp.res /\ rng' = smp.rng
           ELSE sel' = <<>> /\ rng' = R1
    /\ seg' = 1
    /\ attempts' = 0
    /\ pc' = "high_try"
    /\ UNCHANGED <<args, world_data, added, target, fnvars>>

\* variant of TooCloseBand that requires both distances to be small for
\* the platform placed last only, as if the loop over the platforms were lost
TooCloseBandLastOnly(x, y, plats) ==
    /\ Abs(x - plats[Len(plats)].x) < PCfg.band
    /\ Abs(y - plats[Len(plats)].y) < MIN_VERTICAL_SPACING

\* spacing test of the high platforms and of the final platforms: only the
\* first tier (horizontal band and vertical distance together)
TooCloseBand(x, y, plats) ==
    \E i \in 1..Len(plats) :
        /\ Abs(x - plats[i].x) < PCfg.band
        /\ Abs(y - plats[i].y) < MIN_VERTICAL_SPACING

\* "VALIDACION CRITICA" of the high platforms
HighReachable(x, y, w, plats) ==
    \E i \in 1..Len(plats) :
        /\ Abs(plats[i].x - x) < 400
        /\ is_platform_reachable(plats[i].x, plats[i].y, x, y, w)

HighValid(x, y, w, h, plats) ==
    /\ ~is_near_checkpoint(x, y, checkpoints, CHECKPOINT_SAFE_RADIUS)
    /\ ~OverlapsPlatform(x, y, w, h, plats)
    /\ ~TooCloseBand(x, y, plats)
    /\ HighReachable(x, y, w, plats)

\* one iteration of `while attempts_high < 15` for the zone sel[seg]
HighAttempt ==
    /\ pc = "high_try"
    /\ seg <= Len(sel)
    /\ attempts < 15
    /\ LET zone == sel[seg]
           zone_center == PCfg.start_generation + (zone * segment_width) + (segment_width \div 2)
           high_y == height - RandInt(R1, 280, 350)
           high_width == RandInt(R2, 80, 110)
           high_height == 18
           high_x == zone_center - RandInt(R3, 30, 70)
       IN  IF HighValid(high_x, high_y, high_width, high_height, platforms)
           THEN /\ platforms' = Append(platforms, Rect(high_x, high_y, high_width, high_height))
                /\ seg' = seg + 1
                /\ attempts' = 0
           ELSE /\ attempts' = attempts + 1
                /\ UNCHANGED <<platforms, seg>>
    /\ rng' = R3
    /\ UNCHANGED <<args, name, checkpoints, spikes, goal, enemies, powerups, music, pc, added, target, sel, fnvars>>

\* a zone used up its 15 attempts, or all selected zones are done
HighEnd ==
    /\ pc = "high_try"
    /\ IF seg <= Len(sel)
       THEN attempts >= 15 /\ seg' = seg + 1 /\ attempts' = 0 /\ pc' = pc
       ELSE pc' = "final" /\ UNCHANGED <<seg, attempts>>
    /\ UNCHANGED <<args, rng, world_data, added, target, sel, fnvars>>

\* ---------------------------------------------------------------------
\* The final platforms near the goal
\* ---------------------------------------------------------------------
FinalList ==
    CASE biome = "Grass" -> <<Rect(width - 400, height - 170, 150, 20), Rect(width - 220, height - 140, 120, 20)>>
      [] biome = "Desert" -> <<Rect(width - 350, height - 190, 130, 18)>>
      [] OTHER -> <<Rect(width - 380, height - 210, 95, 15)>>

\* checkpoint and spacing validation of a final platform
FinalCanAdd(fp, plats) ==
    /\ ~is_near_checkpoint(fp.x, fp.y, checkpoints, CHECKPOINT_SAFE_RADIUS)
    /\ ~TooCloseBand(fp.x, fp.y, plats)

RECURSIVE AddFinals(_, _)
\* variant that validates every final platform against the list as it was
\* before the first final platform, not against the finals added so far
AddFinalsIndependently(plats, finals) ==
    plats \o SelectSeq(finals, LAMBDA fp : FinalCanAdd(fp, plats))

AddFinals(plats, finals) ==
    IF finals = <<>> THEN plats
    ELSE AddFinals(IF FinalCanAdd(Head(finals), plats) THEN Append(plats, Head(finals)) ELSE plats, Tail(finals))

FinalPlatforms ==
    /\ pc = "final"
    /\ platforms' = AddFinals(platforms, FinalList)
    /\ seg' = 0
    /\ pc' = "zone_begin"
    /\ UNCHANGED <<args, rng, name, checkpoints, spikes, goal, enemies, powerups, music, attempts, added, target, sel, fnvars>>

\* ---------------------------------------------------------------------
\* generate_hazards
\* ---------------------------------------------------------------------
GrassHazardCfg ==
    [safe_zone |-> 500, end_offset |-> 300, num_zones |-> 10, chance |-> 25, max_attempts |-> 5,
     x_margin |-> 40, spike_width |-> 40, spike_height |-> 30,
     danger_min_zones |-> 4, danger_count |-> 2, danger_width |-> 38, danger_height |-> 32,
     danger_step |-> 50, danger_offset |-> 40,
     min_platform_width |-> 0, min_spikes |-> 0, max_spikes |-> 2,
     top_width |-> 40, top_height |-> 30, top_margin |-> 0, top_min_space |-> 0, top_min_offset |-> 0]

DesertHazardCfg ==
    [safe_zone |-> 400, end_offset |-> 250, num_zones |-> 12, chance |-> 45, max_attempts |-> 8,
     x_margin |-> 30, spike_width |-> 38, spike_height |-> 32,
     danger_min_zones |-> 4, danger_count |-> 3, danger_width |-> 38, danger_height |-> 35,
     danger_step |-> 50, danger_offset |-> 40,
     min_platform_width |-> 80, min_spikes |-> 2, max_spikes |-> 3,
     top_width |-> 38, top_height |-> 32, top_margin |-> 60, top_min_space |-> 40, top_min_offset |-> 20]

IceHazardCfg ==
    [safe_zone |-> 350, end_offset |-> 200, num_zones |-> 16, chance |-> 65, max_attempts |-> 10,
     x_margin |-> 25, spike_width |-> 35, spike_height |-> 35,
     danger_min_zones |-> 5, danger_count |-> 5, danger_width |-> 35, danger_height |-> 35,
     danger_step |-> 45, danger_offset |-> 30,
     min_platform_width |-> 65, min_spikes |-> 5, max_spikes |-> 7,
     top_width |-> 35, top_height |-> 35, top_margin |-> 45, top_min_space |-> 35, top_min_offset |-> 10]

HCfg == CASE biome = "Grass" -> GrassHazardCfg [] biome = "Desert" -> DesertHazardCfg [] OTHER -> IceHazardCfg

\* the subtraction reversed: the hazard span comes out negative
zone_width_reversed == (HCfg.safe_zone - (width - HCfg.end_offset)) \div HCfg.num_zones

zone_width == ((width - HCfg.end_offset) - HCfg.safe_zone) \div HCfg.num_zones

ZoneStart(zone) == HCfg.safe_zone + (zone * zone_width)

\* a spike descriptor; the key on_platform, absent from the ground spikes of
\* the code, is FALSE for them
Spike(x, y, w, h, on) == [x |-> x, y |-> y, width |-> w, height |-> h, on_platform |-> on]

\* variant of OverlapsSpike that looks at the spike placed last only
OverlapsLastSpike(x, y, w, h, sps) ==
    /\ sps # <<>>
    /\ rectangles_overlap(x, y, w, h, sps[Len(sps)].x, sps[Len(sps)].y, sps[Len(sps)].width, sps[Len(sps)].height)

\* overlap validation of a spike candidate against the spikes already placed
OverlapsSpike(x, y, w, h, sps) ==
    \E i \in 1..Len(sps) :
        rectangles_overlap(x, y, w, h, sps[i].x, sps[i].y, sps[i].width, sps[i].height)

\* the three validations of a ground spike (individual or danger-zone)
GroundSpikeValid(x, y, w, h, sps) ==
    /\ ~is_near_checkpoint(x, y, checkpoints, 150)
    /\ is_on_surface(x, y, h, platforms, ground_y)
    /\ ~OverlapsSpike(x, y, w, h, sps)

\* head of the zone loop of the individual ground spikes: the per-zone gate
ZoneBegin ==
    /\ pc = "zone_begin"
    /\ IF seg >= HCfg.num_zones
       THEN /\ pc' = "danger_select"
            /\ UNCHANGED <<rng, seg, attempts>>
       ELSE /\ rng' = R1
            /\ attempts' = 0
            /\ IF RandomLess(R1, HCfg.chance)
               THEN pc' = "zone_try" /\ seg' = seg
               ELSE pc' = "zone_begin" /\ seg' = seg + 1
    /\ UNCHANGED <<args, world_data, added, target, sel, fnvars>>

\* one iteration of `while not spike_placed and attempts < cap`; randint
\* raises ValueError on an empty range
GroundSpikeAttempt ==
    /\ pc = "zone_try"
    /\ attempts < HCfg.max_attempts
    /\ LET lo == ZoneStart(seg) + HCfg.x_margin
           hi == (ZoneStart(seg) + zone_width) - HCfg.x_margin
           x == RandInt(R1, lo, hi)
           y == ground_y - HCfg.spike_height
       IN  IF lo > hi
           THEN /\ pc' = "raised"
                /\ UNCHANGED <<rng, spikes, seg, attempts>>
           ELSE /\ rng' = R1
                /\ IF GroundSpikeValid(x, y, HCfg.spike_width, HCfg.spike_height, spikes)
                   THEN /\ spikes' = Append(spikes, Spike(x, y, HCfg.spike_width, HCfg.spike_height, FALSE))
                        /\ seg' = seg + 1
                        /\ attempts' = 0
                        /\ pc' = "zone_begin"
                   ELSE /\ attempts' = attempts + 1
                        /\ UNCHANGED <<spikes, seg, pc>>
    /\ UNCHANGED <<args, name, checkpoints, platforms, goal, enemies, powerups, music, added, target, sel, fnvars>>

\* the attempts of a zone are used up without a spike
ZoneEnd ==
    /\ pc = "zone_try"
    /\ attempts >= HCfg.max_attempts
    /\ seg' = seg + 1
    /\ pc' = "zone_begin"
    /\ UNCHANGED <<args, rng, world_data, attempts, added, target, sel, fnvars>>

\* random.sample of the danger zones
DangerSelect ==
    /\ pc = "danger_select"
    /\ LET smp == Sample(RangeSeq(2, HCfg.num_zones - 1), Min(HCfg.danger_count, HCfg.num_zones - 3), rng)
       IN  IF HCfg.num_zones >= HCfg.danger_min_zones
           THEN sel' = smp.res /\ rng' = smp.rng
           ELSE sel' = <<>> /\ rng' = rng
    /\ seg' = 1
    /\ pc' = "danger_run"
    /\ UNCHANGED <<args, world_data, attempts, added, target, fnvars>>

\* one iteration of `for i in range(num_spikes_in_danger)`: sa is spikes_added
DangerTry(sps, zone, sa) ==
    LET x == ZoneStart(zone) + (sa * HCfg.danger_step) + HCfg.danger_offset
        y == ground_y - HCfg.danger_height
    IN  IF GroundSpikeValid(x, y, HCfg.danger_width, HCfg.danger_height, sps)
        THEN Append(sps, Spike(x, y, HCfg.danger_width, HCfg.danger_height, FALSE))
        ELSE sps

\* variant in which the slot follows the loop index i, not spikes_added
DangerRunByLoopIndex(sps, zone) ==
    LET zone_center_x == ZoneStart(zone) + (zone_width \div 2)
        zone_center_y == ground_y - HCfg.danger_height
        s1 == DangerTry(sps, zone, 0)
        s2 == DangerTry(s1, zone, 1)
    IN  IF is_near_checkpoint(zone_center_x, zone_center_y, checkpoints, 200) THEN sps ELSE s2

\* the body of `for danger_zone in danger_zones` for one zone
DangerRun(sps, zone) ==
    LET zone_center_x == ZoneStart(zone) + (zone_width \div 2)
        zone_center_y == ground_y - HCfg.danger_height
        s1 == DangerTry(sps, zone, 0)
        s2 == DangerTry(s1, zone, Len(s1) - Len(sps))
    IN  IF is_near_checkpoint(zone_center_x, zone_center_y, checkpoints, 200) THEN sps ELSE s2

DangerZoneRun ==
    /\ pc = "danger_run"
    /\ IF seg <= Len(sel)
       THEN /\ spikes' = DangerRun(spikes, sel[seg])
            /\ seg' = seg + 1
            /\ pc' = pc
       ELSE /\ pc' = "pspike_select"
            /\ UNCHANGED <<spikes, seg>>
    /\ UNCHANGED <<args, rng, name, checkpoints, platforms, goal, enemies, powerups, music, attempts, added, target, sel, fnvars>>

\* ---------------------------------------------------------------------
\* generate_hazards: the platform-top spikes
\* ---------------------------------------------------------------------
\* eligibility of a platform for a platform-top spike
EligibleForSpike(p) ==
    /\ p.y < height - 100
    /\ IF biome = "Grass"
       THEN ~is_near_checkpoint(p.x, p.y, checkpoints, 200)
       ELSE /\ ~is_near_checkpoint(p.x + (p.width \div 2), p.y, checkpoints, 200)
            /\ p.width >= HCfg.min_platform_width

RECURSIVE FilterSeq(_, _)
\* eligible_platforms, in the order of platforms
FilterSeq(plats, i) ==
    IF i > Len(plats) THEN <<>>
    ELSE (IF EligibleForSpike(plats[i]) THEN <<plats[i]>> ELSE <<>>) \o FilterSeq(plats, i + 1)

PlatformSpikeSelect ==
    /\ pc = "pspike_select"
    /\ LET eligible_platforms == FilterSeq(platforms, 1)
           num_platform_spikes == Min(RandInt(R1, HCfg.min_spikes, HCfg.max_spikes), Len(eligible_platforms))
           smp == Sample(eligible_platforms, num_platform_spikes, R1)
       IN  IF num_platform_spikes > 0
           THEN sel' = smp.res /\ rng' = smp.rng
           ELSE sel' = <<>> /\ rng' = R1
    /\ seg' = 1
    /\ attempts' = 0
    /\ pc' = "pspike_try"
    /\ UNCHANGED <<args, world_data, added, target, fnvars>>

\* variant of GrassTopSpike lifted by the spike width instead of its height
GrassTopSpikeLifted(p) == Spike(p.x + (p.width \div 2) - 20, p.y - 40, 40, 30, FALSE)

\* variant of GrassTopSpike with the halving of the platform width left out
GrassTopSpikeOffCentre(p) == Spike(p.x + p.width - 20, p.y - 30, 40, 30, FALSE)

\* Grass: the spike centred on platform p
GrassTopSpike(p) == Spike(p.x + (p.width \div 2) - 20, p.y - 30, 40, 30, FALSE)

\* Desert, Ice: the spike at the drawn offset on platform p
TopSpike(p, offset) == Spike(p.x + offset, p.y - HCfg.top_height, HCfg.top_width, HCfg.top_height, TRUE)

\* Desert, Ice: alignment, horizontal range and overlap validation
TopSpikeValid(sp, p, sps) ==
    /\ ~(Abs((sp.y + sp.height) - p.y) > 2)
    /\ ~(sp.x < p.x \/ sp.x + sp.width > p.x + p.width)
    /\ ~OverlapsSpike(sp.x, sp.y, sp.width, sp.height, sps)

\* Grass: the whole body of `for platform in selected_platforms`;
\* Desert, Ice: one iteration of `while not spike_placed and attempts < 5`
PlatformSpikeAttempt ==
    /\ pc = "pspike_try"
    /\ seg <= Len(sel)
    /\ attempts < 5
    /\ LET p == sel[seg]
           available_space == p.width - HCfg.top_margin
           hi == IF biome = "Ice" THEN Max(10, available_space) ELSE available_space
           offset == RandInt(R1, HCfg.top_min_offset, hi)
           sp == TopSpike(p, offset)
           gs == GrassTopSpike(p)
       IN  IF biome = "Grass"
           THEN /\ spikes' = IF OverlapsSpike(gs.x, gs.y, gs.width, gs.height, spikes) THEN spikes ELSE Append(spikes, gs)
                /\ seg' = seg + 1
                /\ UNCHANGED <<rng, attempts, pc>>
           ELSE IF available_space < HCfg.top_min_space
           THEN /\ seg' = seg + 1
                /\ attempts' = 0
                /\ UNCHANGED <<rng, spikes, pc>>
           ELSE IF HCfg.top_min_offset > hi
           THEN /\ pc' = "raised"
                /\ UNCHANGED <<rng, spikes, seg, attempts>>
           ELSE /\ rng' = R1
                /\ pc' = pc
                /\ IF TopSpikeValid(sp, p, spikes)
                   THEN /\ spikes' = Append(spikes, sp)
                        /\ seg' = seg + 1
                        /\ attempts' = 0
                   ELSE /\ attempts' = attempts + 1
                        /\ UNCHANGED <<spikes, seg>>
    /\ UNCHANGED <<args, name, checkpoints, platforms, goal, enemies, powerups, music, added, target, sel, fnvars>>

\* a platform used up its 5 attempts, or all selected platforms are done:
\* generate_hazards returns
PlatformSpikeEnd ==
    /\ pc = "pspike_try"
    /\ IF seg <= Len(sel)
       THEN attempts >= 5 /\ seg' = seg + 1 /\ attempts' = 0 /\ pc' = pc
       ELSE pc' = "goal" /\ UNCHANGED <<seg, attempts>>
    /\ UNCHANGED <<args, rng, world_data, added, target, sel, fnvars>>

\* ---------------------------------------------------------------------
\* add_goal
\* ---------------------------------------------------------------------
add_goal(w, h) == Rect(w - 120, h - 300, 60, 250)

\* variant of the goal stage that hands over to add_powerups, leaving
\* add_enemies out
AddGoalSkipEnemies ==
    /\ pc = "goal"
    /\ goal' = <<add_goal(width, height)>>
    /\ seg' = 1
    /\ pc' = "powerups"
    /\ UNCHANGED <<args, rng, name, checkpoints, platforms, spikes, enemies, powerups, music, attempts, added, target, sel, fnvars>>

AddGoal ==
    /\ pc = "goal"
    /\ goal' = <<add_goal(width, height)>>
    /\ seg' = 1
    /\ pc' = "enemies"
    /\ UNCHANGED <<args, rng, name, checkpoints, platforms, spikes, enemies, powerups, music, attempts, added, target, sel, fnvars>>

\* ---------------------------------------------------------------------
\* add_enemies
\* ---------------------------------------------------------------------
\* VALIDACION 5: the platform is near a checkpoint
EnemyNearCheckpoint(p) ==
    \E i \in 1..Len(checkpoints) :
        /\ Abs(p.x - checkpoints[i].x) < 200
        /\ Abs(p.y - checkpoints[i].y) < 150

\* VALIDACION 6: the platform is near the goal
EnemyNearGoal(p) ==
    /\ goal # <<>>
    /\ Abs(p.x - goal[1].x) < 300
    /\ Abs(p.y - goal[1].y) < 150

\* VALIDACION 8: too close to an enemy already placed
EnemyNearEnemy(enemy_x, ens) ==
    \E i \in 1..Len(ens) : Abs(enemy_x - ens[i].x) < 100

\* the spawn margin forgotten: the enemy is drawn anywhere along the platform
enemy_x_no_margin(p, s) == p.x + RandInt(s, 0, p.width)

\* enemy_x = platform_x + margin + random.randint(0, available_width), with
\* margin = 40 and available_width = platform_width - 2 * margin
enemy_x(p, s) == p.x + 40 + RandInt(s, 0, p.width - 80)

\* variant without the safe zone: only narrow platforms are skipped
EnemySkipsPlatformNoSafeZone(p) == p.width < 80

\* VALIDACION 1 and 2: the platform starts inside the safe zone
\* (safe_zone_x = 500) or is narrower than 80
EnemySkipsPlatform(p) == p.x < 500 \/ p.width < 80

\* the body of `for platform in platforms` for platforms[seg]
EnemyStep ==
    /\ pc = "enemies"
    /\ seg <= Len(platforms)
    /\ seg' = seg + 1
    /\ LET p == platforms[seg]
           is_ground == p.y >= height - 60
           current_probability == IF is_ground THEN ENEMY_SPAWN_CHANCE_GROUND ELSE ENEMY_SPAWN_CHANCE
           margin == 40
           available_width == p.width - (2 * margin)
           enemy_y == p.y - 50
       IN  IF EnemySkipsPlatform(p)
           THEN UNCHANGED <<rng, enemies>>
           ELSE IF RandomGreater(R1, current_probability) \/ EnemyNearCheckpoint(p) \/ EnemyNearGoal(p) \/ available_width < 40
           THEN rng' = R1 /\ UNCHANGED enemies
           ELSE /\ rng' = R2
                /\ enemies' = IF EnemyNearEnemy(enemy_x(p, R2), enemies) THEN enemies
                              ELSE Append(enemies, Rect(enemy_x(p, R2), enemy_y, 40, 50))
    /\ UNCHANGED <<args, name, checkpoints, platforms, spikes, goal, powerups, music, pc, attempts, added, target, sel, fnvars>>

EnemiesEnd ==
    /\ pc = "enemies"
    /\ seg > Len(platforms)
    /\ pc' = "powerups"
    /\ UNCHANGED <<args, rng, world_data, locals, fnvars>>

\* ---------------------------------------------------------------------
\* add_powerups
\* ---------------------------------------------------------------------
\* num_powerups and max_attempts are fixed before the loop
PowerupsBegin ==
    /\ pc = "powerups"
    /\ target' = (width \div 1000) + RandInt(R1, 2, 4)
    /\ rng' = R1
    /\ attempts' = 0
    /\ pc' = "powerup_try"
    /\ UNCHANGED <<args, world_data, seg, added, sel, fnvars>>

\* indices of the platforms an 'on_platform' power-up may be snapped to
SnapCandidates(x, plats) ==
    {i \in 1..Len(plats) : plats[i].y < height - 100 /\ Abs(plats[i].x - x) < 300}

\* suitable_platform: the first platform of least distance among them
SuitablePlatform(x, plats) ==
    LET c == SnapCandidates(x, plats)
        i == CHOOSE k \in c : \A j \in c :
                 \/ Abs(plats[k].x - x) < Abs(plats[j].x - x)
                 \/ Abs(plats[k].x - x) = Abs(plats[j].x - x) /\ k <= j
    IN  plats[i]

\* VALIDACION 1 of add_powerups
PowerupNearCheckpoint(x, y) ==
    \E i \in 1..Len(checkpoints) :
        /\ Abs(x - checkpoints[i].x) < POWERUP_MIN_DISTANCE_CHECKPOINT
        /\ Abs(y - checkpoints[i].y) < 100

\* VALIDACION 2 of add_powerups
PowerupNearGoal(x, y) ==
    /\ goal # <<>>
    /\ Abs(x - goal[1].x) < POWERUP_MIN_DISTANCE_GOAL
    /\ Abs(y - goal[1].y) < 150

\* VALIDACION 3 of add_powerups
PowerupNearEnemy(x, ens) ==
    \E i \in 1..Len(ens) : Abs(x - ens[i].x) < POWERUP_MIN_DISTANCE_ENEMY

\* variant of PowerupNearPowerup that uses the distance meant for enemies
PowerupNearPowerupEnemyDistance(x, pus) ==
    \E i \in 1..Len(pus) : Abs(x - pus[i].x) < POWERUP_MIN_DISTANCE_ENEMY

\* VALIDACION 4 of add_powerups
PowerupNearPowerup(x, pus) ==
    \E i \in 1..Len(pus) : Abs(x - pus[i].x) < POWERUP_MIN_DISTANCE_POWERUP

PowerupValid(x, y) ==
    /\ ~PowerupNearCheckpoint(x, y)
    /\ ~PowerupNearGoal(x, y)
    /\ ~PowerupNearEnemy(x, enemies)
    /\ ~PowerupNearPowerup(x, powerups)

\* get_powerup_type of the three generators, read off stream state s
\* variant with the last Grass type misspelt
get_powerup_type_misspelt(s) ==
    CASE biome = "Grass" -> (IF RandomLess(s, 40) THEN "speed" ELSE IF RandomLess(s, 70) THEN "jump" ELSE "live")
      [] biome = "Desert" -> (IF RandomLess(s, 50) THEN "jump" ELSE IF RandomLess(s, 75) THEN "speed" ELSE "life")
      [] OTHER -> (IF RandomLess(s, 50) THEN "life" ELSE IF RandomLess(s, 75) THEN "speed" ELSE "jump")

get_powerup_type(s) ==
    CASE biome = "Grass" -> (IF RandomLess(s, 40) THEN "speed" ELSE IF RandomLess(s, 70) THEN "jump" ELSE "life")
      [] biome = "Desert" -> (IF RandomLess(s, 50) THEN "jump" ELSE IF RandomLess(s, 75) THEN "speed" ELSE "life")
      [] OTHER -> (IF RandomLess(s, 50) THEN "life" ELSE IF RandomLess(s, 75) THEN "speed" ELSE "jump")

PowerUp(x, y, t) == [x |-> x, y |-> y, width |-> 35, height |-> 35, type |-> t]

\* one iteration of the while loop of add_powerups
PowerupAttempt ==
    /\ pc = "powerup_try"
    /\ Len(powerups) < target /\ attempts < target * 15
    /\ LET x0 == RandInt(R1, POWERUP_SAFE_ZONE, width - 200)
           on_platform == RandInt(R2, 0, 1) = 0
           snappable == SnapCandidates(x0, platforms) # {}
           sp == SuitablePlatform(x0, platforms)
           x == IF on_platform THEN sp.x + (sp.width \div 2) ELSE x0
           y == IF on_platform THEN sp.y - 40 ELSE RandInt(R3, height - 400, height - 150)
           r == IF on_platform THEN R2 ELSE R3
       IN  IF POWERUP_SAFE_ZONE > width - 200
           THEN /\ pc' = "raised"
                /\ UNCHANGED <<rng, powerups>>
           ELSE IF on_platform /\ ~snappable
           THEN /\ rng' = R2
                /\ UNCHANGED <<pc, powerups>>
           ELSE IF PowerupValid(x, y)
           THEN /\ rng' = Nxt(r)
                /\ powerups' = Append(powerups, PowerUp(x, y, get_powerup_type(Nxt(r))))
                /\ pc' = pc
           ELSE /\ rng' = r
                /\ UNCHANGED <<pc, powerups>>
    /\ attempts' = attempts + 1
    /\ UNCHANGED <<args, name, checkpoints, platforms, spikes, goal, enemies, music, seg, added, target, sel, fnvars>>

\* the while condition of add_powerups is false: add_powerups returns
PowerupsEnd ==
    /\ pc = "powerup_try"
    /\ ~(Len(powerups) < target /\ attempts < target * 15)
    /\ pc' = "special"
    /\ UNCHANGED <<args, rng, world_data, locals, fnvars>>

\* ---------------------------------------------------------------------
\* add_special_features and the return of generate_world
\* ---------------------------------------------------------------------
\* ---------------------------------------------------------------------
\* PowerUpStrategyFactory (Powerups_Enemies.py)
\* ---------------------------------------------------------------------
\* the class attribute _strategies: type name -> strategy class
PowerUpStrategyFactory_strategies ==
    [speed |-> "SpeedBoostStrategy", jump |-> "JumpBoostStrategy", life |-> "LifeBoostStrategy"]

\* create_strategy: the strategy class of a registered type, ValueError
\* for any other
create_strategy(powerup_type) ==
    IF powerup_type \notin DOMAIN PowerUpStrategyFactory_strategies
    THEN "ValueError"
    ELSE PowerUpStrategyFactory_strategies[powerup_type]

MusicOf(b) == CASE b = "Grass" -> "Assets/WorldMusic/grass_theme.mp3" [] b = "Desert" -> "Assets/WorldMusic/desert_theme.mp3" [] OTHER -> "Assets/WorldMusic/ice_theme.mp3"

AddSpecialFeatures ==
    /\ pc = "special"
    /\ music' = MusicOf(biome)
    /\ pc' = "done"
    /\ UNCHANGED <<args, rng, name, checkpoints, platforms, spikes, goal, enemies, powerups, locals, fnvars>>

Next ==
    \/ DefineColorsAndName
    \/ GenerateCheckpoints
    \/ PlatformsBegin
    \/ SegmentBegin
    \/ PlatformAttempt
    \/ SegmentEnd
    \/ HighSelect
    \/ HighAttempt
    \/ HighEnd
    \/ FinalPlatforms
    \/ ZoneBegin
    \/ GroundSpikeAttempt
    \/ ZoneEnd
    \/ DangerSelect
    \/ DangerZoneRun
    \/ PlatformSpikeSelect
    \/ PlatformSpikeAttempt
    \/ PlatformSpikeEnd
    \/ AddGoal
    \/ EnemyStep
    \/ EnemiesEnd
    \/ PowerupsBegin
    \/ PowerupAttempt
    \/ PowerupsEnd
    \/ AddSpecialFeatures

Spec == Init /\ [][Next]_vars

\* generate_world is one synchronous call: the statement it stands at is
\* executed, so a step that is enabled is eventually taken
SpecFair == Spec /\ WF_vars(Next)

\* ---------------------------------------------------------------------
\* Specification of the pure functions: Init draws the arguments around the
\* thresholds of the function, the action applies it
\* ---------------------------------------------------------------------
\* offsets around +/- t, and the values next to zero
Around(t) == {t + d : d \in (0 - FnSpan)..FnSpan} \cup {(0 - t) + d : d \in (0 - FnSpan)..FnSpan} \cup {0 - 1, 0, 1}

ReachCalls ==
    {[fn |-> "is_platform_reachable", from_x |-> fx, from_y |-> fy, to_x |-> fx + dx, to_y |-> fy + dy, to_width |-> w] :
        fx \in {300, 900}, fy \in {200, 450}, dx \in Around(MAX_JUMP_DISTANCE), dy \in Around(MAX_JUMP_HEIGHT), w \in {80, 150}}

\* arguments of rectangles_overlap: a platform-sized first rectangle and a
\* spike-sized second one placed around each of its edges and over it
OverlapCalls ==
    {[fn |-> "rectangles_overlap", x1 |-> 1000, y1 |-> 400, w1 |-> w1, h1 |-> h1, x2 |-> x2, y2 |-> y2, w2 |-> 40, h2 |-> 30] :
        w1 \in {40, 150}, h1 \in {20, 30},
        x2 \in {1000 + d : d \in (0 - FnSpan)..FnSpan} \cup {1040 + d : d \in (0 - FnSpan)..FnSpan}
                \cup {1150 + d : d \in (0 - FnSpan)..FnSpan} \cup {960 + d : d \in (0 - FnSpan)..FnSpan},
        y2 \in {400 + d : d \in (0 - FnSpan)..FnSpan} \cup {420 + d : d \in (0 - FnSpan)..FnSpan}
                \cup {430 + d : d \in (0 - FnSpan)..FnSpan} \cup {370 + d : d \in (0 - FnSpan)..FnSpan}}

InitFn ==
    /\ biome = "Grass"
    /\ width = 3000
    /\ height = 600
    /\ rng = 0
    /\ pc = "fn_call"
    /\ name = ""
    /\ checkpoints = <<>>
    /\ platforms = <<>>
    /\ spikes = <<>>
    /\ goal = <<>>
    /\ enemies = <<>>
    /\ powerups = <<>>
    /\ music = ""
    /\ seg = 0
    /\ attempts = 0
    /\ added = 0
    /\ target = 0
    /\ sel = <<>>
    /\ call \in ReachCalls \cup OverlapCalls
    /\ ret = FALSE

CallIsPlatformReachable ==
    /\ pc = "fn_call"
    /\ call.fn = "is_platform_reachable"
    /\ ret' = is_platform_reachable(call.from_x, call.from_y, call.to_x, call.to_y, call.to_width)
    /\ pc' = "fn_ret"
    /\ UNCHANGED <<args, rng, world_data, locals, call>>

CallRectanglesOverlap ==
    /\ pc = "fn_call"
    /\ call.fn = "rectangles_overlap"
    /\ ret' = rectangles_overlap(call.x1, call.y1, call.w1, call.h1, call.x2, call.y2, call.w2, call.h2)
    /\ pc' = "fn_ret"
    /\ UNCHANGED <<args, rng, world_data, locals, call>>

NextFn ==
    \/ CallIsPlatformReachable
    \/ CallRectanglesOverlap

SpecFn == InitFn /\ [][NextFn]_vars

\* ---------------------------------------------------------------------
\* Properties
\* ---------------------------------------------------------------------
\* indices reachable in one is_platform_reachable step from an index of S
ReachStep(S) ==
    S \cup {j \in 1..Len(platforms) : \E i \in S :
              is_platform_reachable(platforms[i].x, platforms[i].y, platforms[j].x, platforms[j].y, platforms[j].width)}

RECURSIVE ReachClosure(_)
ReachClosure(S) == IF ReachStep(S) = S THEN S ELSE ReachClosure(ReachStep(S))

\* C1 (as claimed): in a returned blueprint every non-ground platform is the
\* end of a chain of platforms that starts at the ground and whose
\* consecutive pairs satisfy is_platform_reachable
C1_Connectivity ==
    pc = "done" => ReachClosure({1}) = 1..Len(platforms)

\* C2 (as claimed): is_platform_reachable returns false exactly when the
\* horizontal distance exceeds MAX_JUMP_DISTANCE or the target is higher
\* than the source (to_y < from_y) by more than MAX_JUMP_HEIGHT; a lower
\* target in horizontal range is always reachable
C2_ReachableUpwardBounded ==
    (pc = "fn_ret" /\ call.fn = "is_platform_reachable") =>
        (ret = FALSE <=> (\/ Abs(call.to_x - call.from_x) > 250
                          \/ call.to_y < call.from_y /\ call.from_y - call.to_y > 130))

\* C3: no two distinct platforms of the blueprint (of any pass) have
\* intersecting rectangles
C3_NoPlatformOverlap ==
    \A i, j \in 1..Len(platforms) :
        i < j => ~rectangles_overlap(platforms[i].x, platforms[i].y, platforms[i].width, platforms[i].height,
                                     platforms[j].x, platforms[j].y, platforms[j].width, platforms[j].height)

\* a returned Desert blueprint with a starting platform, distributed
\* platforms, a high platform and the final platform
C3_Witness ==
    /\ pc = "done"
    /\ biome = "Desert"
    /\ Len(platforms) >= 8
    /\ \E i \in 1..Len(platforms) : platforms[i] = second_platform
    /\ \E i \in 1..Len(platforms) : platforms[i].y < height - 300
    /\ platforms[Len(platforms)] = FinalList[1]

\* C4: once generate_platforms has started, the blueprint holds exactly one
\* platform spanning the full world width, the ground {0, height-50, width, 50},
\* in every later stage
C4_GroundPlatform ==
    pc \notin {"start", "checkpoints", "platforms"} =>
        /\ Len(platforms) >= 1
        /\ platforms[1] = [x |-> 0, y |-> height - 50, width |-> width, height |-> 50]
        /\ \A i \in 2..Len(platforms) : ~(platforms[i].x <= 0 /\ platforms[i].x + platforms[i].width >= width)

\* a returned blueprint with platforms placed after the ground
C4_Witness ==
    /\ pc = "done"
    /\ Len(platforms) >= 5
    /\ Len(spikes) >= 1

\* C5: every spike of the blueprint rests on a surface: is_on_surface holds
\* for it against the platforms of the blueprint and the ground level
C5_SpikesOnSurface ==
    \A i \in 1..Len(spikes) :
        is_on_surface(spikes[i].x, spikes[i].y, spikes[i].height, platforms, height - 50)

\* a returned blueprint with a spike on the ground and a platform-top spike
C5_Witness ==
    /\ pc = "done"
    /\ \E i \in 1..Len(spikes) : spikes[i].y + spikes[i].height = height - 50
    /\ \E i \in 1..Len(spikes) : spikes[i].y + spikes[i].height < height - 100

\* C6: no two distinct spikes of the blueprint have overlapping rectangles
C6_NoSpikeOverlap ==
    \A i, j \in 1..Len(spikes) :
        i < j => ~rectangles_overlap(spikes[i].x, spikes[i].y, spikes[i].width, spikes[i].height,
                                     spikes[j].x, spikes[j].y, spikes[j].width, spikes[j].height)

\* a returned blueprint with spikes of all three passes: an individual
\* ground spike, a danger-zone spike at its fixed slot, a platform-top spike
C6_Witness ==
    /\ pc = "done"
    /\ \E i \in 1..Len(spikes) :
          /\ spikes[i].y + spikes[i].height = height - 50
          /\ \A z \in 0..(HCfg.num_zones - 1) : spikes[i].x # ZoneStart(z) + HCfg.danger_offset
    /\ \E i \in 1..Len(spikes), z \in 2..(HCfg.num_zones - 2) :
          /\ spikes[i].y + spikes[i].height = height - 50
          /\ spikes[i].x = ZoneStart(z) + HCfg.danger_offset + HCfg.danger_step
    /\ \E i \in 1..Len(spikes) : spikes[i].y + spikes[i].height < height - 100

\* C7: from generate_checkpoints on, the blueprint holds exactly the three
\* checkpoints at x = 800, 1600, 2400 and y = height - 150, in that order
C7_Checkpoints ==
    pc \notin {"start", "checkpoints"} =>
        checkpoints = <<[x |-> 800, y |-> height - 150], [x |-> 1600, y |-> height - 150], [x |-> 2400, y |-> height - 150]>>

\* a returned blueprint of a world wider than the shipped one
C7_Witness ==
    /\ pc = "done"
    /\ width = 3500
    /\ Len(checkpoints) = 3

\* C8 (as claimed): in a returned blueprint no power-up rectangle intersects
\* the rectangle of a spike
C8_PowerupsClearOfSpikes ==
    pc = "done" =>
        \A u \in 1..Len(powerups), h \in 1..Len(spikes) :
            ~rectangles_overlap(powerups[u].x, powerups[u].y, powerups[u].width, powerups[u].height,
                                spikes[h].x, spikes[h].y, spikes[h].width, spikes[h].height)

DistSq(ax, ay, bx, by) == (ax - bx) * (ax - bx) + (ay - by) * (ay - by)

\* C9 (as claimed): every power-up is at Euclidean distance at least 150
\* from every checkpoint and at least 250 from the goal
C9_PowerupsFarFromCheckpointsAndGoal ==
    pc = "done" =>
        \A u \in 1..Len(powerups) :
            /\ \A c \in 1..Len(checkpoints) :
                  DistSq(powerups[u].x, powerups[u].y, checkpoints[c].x, checkpoints[c].y) >= 150 * 150
            /\ DistSq(powerups[u].x, powerups[u].y, goal[1].x, goal[1].y) >= 250 * 250

\* C10: every power-up is horizontally, hence also in Euclidean distance,
\* at least 120 from every enemy and at least 200 from every other power-up
C10_PowerupsFarFromEnemiesAndPowerups ==
    \A u \in 1..Len(powerups) :
        /\ \A e \in 1..Len(enemies) :
              /\ Abs(powerups[u].x - enemies[e].x) >= 120
              /\ DistSq(powerups[u].x, powerups[u].y, enemies[e].x, enemies[e].y) >= 120 * 120
        /\ \A v \in 1..Len(powerups) : u # v =>
              /\ Abs(powerups[u].x - powerups[v].x) >= 200
              /\ DistSq(powerups[u].x, powerups[u].y, powerups[v].x, powerups[v].y) >= 200 * 200

\* a returned blueprint with enemies and several power-ups, where a
\* candidate power-up was rejected on the way
C10_Witness ==
    /\ pc = "done"
    /\ Len(enemies) >= 2
    /\ Len(powerups) >= 3
    /\ attempts > Len(powerups)

\* ---------------------------------------------------------------------------
\* C11: every enemy of the blueprint stands on a platform of the blueprint
\* that contains its spawn margin: some platform p has e.y + 50 = p.y,
\* p.x + 40 <= e.x <= p.x + p.width - 40, p.width >= 80 and p.x >= 500
C11_EnemiesOnPlatform ==
    \A i \in 1..Len(enemies) :
        \E j \in 1..Len(platforms) :
            /\ enemies[i].y + 50 = platforms[j].y
            /\ platforms[j].x + 40 <= enemies[i].x
            /\ enemies[i].x <= platforms[j].x + platforms[j].width - 40
            /\ platforms[j].width >= 80
            /\ platforms[j].x >= 500

\* a finished blueprint with enemies, one of them standing exactly at the
\* left margin of its platform and one away from it
C11_Witness ==
    /\ pc = "done"
    /\ \E i \in 1..Len(enemies) : \E j \in 1..Len(platforms) :
            /\ enemies[i].y + 50 = platforms[j].y
            /\ enemies[i].x - platforms[j].x \in 40..45
    /\ \E i \in 1..Len(enemies) : \E j \in 1..Len(platforms) :
            /\ enemies[i].y + 50 = platforms[j].y
            /\ platforms[j].x + platforms[j].width - 40 - enemies[i].x \in 0..5

\* ---------------------------------------------------------------------------
\* C12: no enemy is within the exclusion radius of a checkpoint, of the goal
\* or of another enemy, measured at the enemy's own position: for no
\* checkpoint |e.x - c.x| < 200 and |e.y - c.y| < 150, not (|e.x - goal.x| < 300
\* and |e.y - goal.y| < 150), and two enemies are at least 100 apart in x
C12_EnemiesClearOfCheckpointsGoalEnemies ==
    /\ \A i \in 1..Len(enemies) : \A k \in 1..Len(checkpoints) :
            ~ (/\ Abs(enemies[i].x - checkpoints[k].x) < 200
               /\ Abs(enemies[i].y - checkpoints[k].y) < 150)
    /\ \A i \in 1..Len(enemies) :
            goal # <<>> => ~ (/\ Abs(enemies[i].x - goal[1].x) < 300
                              /\ Abs(enemies[i].y - goal[1].y) < 150)
    /\ \A i, j \in 1..Len(enemies) :
            i # j => Abs(enemies[i].x - enemies[j].x) >= 100

\* ---------------------------------------------------------------------------
\* C13: for a degenerate world of minimal width (400) generate_world never
\* raises, and the blueprint it returns holds at least the ground platform,
\* the three fixed checkpoints and a goal
C13_DegenerateWidthNoRaise ==
    width = 400 =>
        /\ pc # "raised"
        /\ pc = "done" =>
              /\ \E j \in 1..Len(platforms) : platforms[j] = Rect(0, ground_y, width, 50)
              /\ Len(checkpoints) = 3
              /\ goal # <<>>

\* ---------------------------------------------------------------------------
\* C14: for the shipped configuration (width 3000, height 600) and each biome
\* generate_world never raises, every retry loop stays within its attempt
\* cap (20/25/30 per platform segment, 15 per Desert high platform, 5/8/10
\* per ground-spike zone, 5 per platform-top spike, 15 x target for
\* power-ups), and the call terminates with a blueprint
ShippedConfiguration == width = 3000 /\ height = 600

AttemptCapsRespected ==
    /\ pc = "seg_try" => attempts <= (CASE biome = "Grass" -> 20 [] biome = "Desert" -> 25 [] OTHER -> 30)
    /\ pc = "high_try" => attempts <= 15
    /\ pc = "zone_try" => attempts <= (CASE biome = "Grass" -> 5 [] biome = "Desert" -> 8 [] OTHER -> 10)
    /\ pc = "pspike_try" => attempts <= 5
    /\ pc = "powerup_try" => attempts <= 15 * target

C14_ShippedTerminates ==
    /\ [](ShippedConfiguration => pc # "raised" /\ AttemptCapsRespected)
    /\ <>(ShippedConfiguration => pc = "done")

\* a platform segment of the shipped configuration has used up its attempts
\* without reaching its target: the missing platform is omitted
C14_Witness ==
    /\ ShippedConfiguration
    /\ pc = "seg_try"
    /\ attempts = PCfg.max_attempts
    /\ added < target

\* ---------------------------------------------------------------------------
\* C16: generate_world runs its stages once each in the fixed order
\* colors/name, checkpoints, platforms, hazards, goal, enemies, power-ups,
\* add_special_features; a key of the blueprint is written only by its own
\* stage, so a stage reads only what completed stages produced; and the
\* returned blueprint has a music key that is not null
StageOf(p) ==
    CASE p = "start" -> 1
      [] p = "checkpoints" -> 2
      [] p \in {"platforms", "seg_begin", "seg_try", "high_select", "high_try", "final"} -> 3
      [] p \in {"zone_begin", "zone_try", "danger_select", "danger_run", "pspike_select", "pspike_try"} -> 4
      [] p = "goal" -> 5
      [] p = "enemies" -> 6
      [] p \in {"powerups", "powerup_try"} -> 7
      [] p = "special" -> 8
      [] OTHER -> 9

StageStep ==
    /\ pc' # "raised" => StageOf(pc') \in {StageOf(pc), StageOf(pc) + 1}
    /\ name' # name => StageOf(pc) = 1
    /\ checkpoints' # checkpoints => StageOf(pc) = 2
    /\ platforms' # platforms => StageOf(pc) = 3
    /\ spikes' # spikes => StageOf(pc) = 4
    /\ goal' # goal => StageOf(pc) = 5
    /\ enemies' # enemies => StageOf(pc) = 6
    /\ powerups' # powerups => StageOf(pc) = 7
    /\ music' # music => StageOf(pc) = 8
    /\ pc' = "done" => music' # ""

C16_StageOrder == [][StageStep]_vars

\* a returned blueprint in which every stage has left something
C16_Witness ==
    /\ pc = "done"
    /\ name # ""
    /\ Len(checkpoints) = 3
    /\ Len(platforms) > 1
    /\ Len(spikes) > 0
    /\ goal # <<>>
    /\ Len(enemies) > 0
    /\ Len(powerups) > 0
    /\ music # ""

\* ---------------------------------------------------------------------------
\* C17: rectangles_overlap is the axis-aligned intersection test in which
\* rectangles that only touch along an edge (x1 + w1 = x2, x2 + w2 = x1,
\* y1 + h1 = y2 or y2 + h2 = y1) do not overlap, and it gives the same answer
\* when its two rectangles are exchanged
C17_TouchingIsNotOverlap ==
    (pc = "fn_ret" /\ call.fn = "rectangles_overlap") =>
        /\ ret = (/\ call.x1 < call.x2 + call.w2
                  /\ call.x2 < call.x1 + call.w1
                  /\ call.y1 < call.y2 + call.h2
                  /\ call.y2 < call.y1 + call.h1)
        /\ (\/ call.x1 + call.w1 = call.x2
            \/ call.x2 + call.w2 = call.x1
            \/ call.y1 + call.h1 = call.y2
            \/ call.y2 + call.h2 = call.y1) => ret = FALSE
        /\ ret = rectangles_overlap(call.x2, call.y2, call.w2, call.h2, call.x1, call.y1, call.w1, call.h1)

\* ---------------------------------------------------------------------------
\* C18: every power-up of a blueprint carries a type in {speed, jump, life},
\* and each of these is registered in PowerUpStrategyFactory, so
\* create_strategy does not raise ValueError for a power-up of a blueprint;
\* it raises only for a type that is absent from the registry
C18_PowerupTypesRegistered ==
    /\ \A i \in 1..Len(powerups) :
            /\ powerups[i].type \in {"speed", "jump", "life"}
            /\ create_strategy(powerups[i].type) # "ValueError"
    /\ \A t \in {"speed", "jump", "life"} : create_strategy(t) # "ValueError"
    /\ \A t \in {"shield", "live", ""} : create_strategy(t) = "ValueError"

\* a returned blueprint whose power-ups carry all three types
C18_Witness ==
    /\ pc = "done"
    /\ \A t \in {"speed", "jump", "life"} : \E i \in 1..Len(powerups) : powerups[i].type = t

\* ---------------------------------------------------------------------------
\* C19: in the distributed platform pass, a candidate with no already-placed
\* platform inside its horizontal search window (prev.x < x + 350 and
\* prev.x > x - 350 in Grass and Desert, 400 in Ice) is accepted
\* unconditionally instead of being rejected as unreachable
SearchWindow == IF biome = "Ice" THEN 400 ELSE 350

NoPlatformInWindow ==
    \A i \in 1..Len(platforms) :
        ~(/\ platforms[i].x < platform_candidate.x + SearchWindow
          /\ platforms[i].x > platform_candidate.x - SearchWindow)

\* the candidate about to be drawn passes validations 1 to 3 and has an
\* empty search window
LoneCandidate ==
    /\ DrawsCandidate
    /\ NoPlatformInWindow
    /\ ~is_near_checkpoint(platform_candidate.x, platform_candidate.y, checkpoints, CHECKPOINT_SAFE_RADIUS)
    /\ ~OverlapsPlatform(platform_candidate.x, platform_candidate.y, platform_candidate.width, PCfg.platform_height, platforms)
    /\ ~TooClose(platform_candidate.x, platform_candidate.y, platforms)

CandidateCommitted ==
    platforms' = Append(platforms, Rect(platform_candidate.x, platform_candidate.y, platform_candidate.width, PCfg.platform_height))

FromGroundOrFarEdge ==
    \/ biome = "Grass"
    \/ (height - 50) - platform_candidate.y <= 130
    \/ \E i \in 1..Len(platforms) :
            /\ biome = "Ice" => platforms[i].y # height - 50
            /\ Abs(platform_candidate.x - (platforms[i].x + platforms[i].width)) <= 250
            /\ platform_candidate.y - platforms[i].y <= 130

C20_StartingPlatformsCheckpointOnly ==
    pc \notin {"start", "checkpoints", "platforms", "fn_call", "fn_ret"} =>
        \A s \in {first_platform, second_platform} :
            (\E j \in 1..Len(platforms) : platforms[j] = s)
                <=> ~is_near_checkpoint(s.x, s.y, checkpoints, CHECKPOINT_SAFE_RADIUS)

\* ---------------------------------------------------------------------------
\* C21: two-tier spacing rule. A platform p committed by the distributed
\* segment pass satisfies, against every platform q committed before it:
\* |p.x - q.x| below the band (200 Grass, 220 Desert, 270 Ice) implies
\* |p.y - q.y| >= 80, and |p.y - q.y| below the similar-height threshold
\* (40 Grass and Desert, 30 Ice) implies |p.x - q.x| >= 100 (130 in Ice)
SegmentPassCommits == pc = "seg_try" /\ Len(platforms') = Len(platforms) + 1

TwoTierSpaced(p, q) ==
    LET band == CASE biome = "Grass" -> 200 [] biome = "Desert" -> 220 [] OTHER -> 270
        similar == IF biome = "Ice" THEN 30 ELSE 40
        min_horizontal == IF biome = "Ice" THEN 130 ELSE 100
    IN  /\ Abs(p.x - q.x) < band => Abs(p.y - q.y) >= 80
        /\ Abs(p.y - q.y) < similar => Abs(p.x - q.x) >= min_horizontal

C21_TwoTierSpacing ==
    [][SegmentPassCommits =>
           \A j \in 1..Len(platforms) : TwoTierSpaced(platforms'[Len(platforms')], platforms[j])]_vars

\* the segment pass has committed a platform that lies inside the band of an
\* earlier non-ground platform, at least 80 above or below it
C21_Witness ==
    /\ pc = "seg_try"
    /\ added > 0
    /\ \E j \in 2..(Len(platforms) - 1) :
            /\ Abs(platforms[Len(platforms)].x - platforms[j].x) < 200
            /\ Abs(platforms[Len(platforms)].y - platforms[j].y) >= 80

\* ---------------------------------------------------------------------------
\* C22: checkpoint exclusion for platforms. Every non-ground platform of a
\* blueprint has its position (x, y) at Euclidean distance >= 250 from every
\* checkpoint position, and no platform rectangle intersects the 40x60
\* footprint of a checkpoint
IsGroundPlatform(p) == p.x = 0 /\ p.y = height - 50 /\ p.width = width

C22_PlatformsClearOfCheckpoints ==
    \A j \in 1..Len(platforms) : \A k \in 1..Len(checkpoints) :
        ~IsGroundPlatform(platforms[j]) =>
            /\ DistSq(platforms[j].x, platforms[j].y, checkpoints[k].x, checkpoints[k].y) >= 250 * 250
            /\ ~(/\ platforms[j].x < checkpoints[k].x + 40
                  /\ checkpoints[k].x < platforms[j].x + platforms[j].width
                  /\ platforms[j].y < checkpoints[k].y + 60
                  /\ checkpoints[k].y < platforms[j].y + platforms[j].height)

\* a returned blueprint with a non-ground platform between 250 and 300 from
\* a checkpoint
C22_Witness ==
    /\ pc = "done"
    /\ \E j \in 1..Len(platforms) : \E k \in 1..Len(checkpoints) :
            /\ ~IsGroundPlatform(platforms[j])
            /\ DistSq(platforms[j].x, platforms[j].y, checkpoints[k].x, checkpoints[k].y) < 300 * 300

\* ---------------------------------------------------------------------------
\* C23: danger-zone runs. The danger zones of a blueprint are distinct zones
\* with index in [2, num_zones - 2]; a zone whose centre is within 200 of a
\* checkpoint contributes no spike; otherwise it contributes nothing, or one
\* spike at the first slot (zone_start + 40, + 30 in Ice), or that spike and
\* a second one at the next slot (+ 50, + 45 in Ice): never a spike at the
\* second slot alone
DangerZoneStep == pc = "danger_run" /\ seg <= Len(sel)

DangerSlot(zone, k) ==
    LET num_zones == CASE biome = "Grass" -> 10 [] biome = "Desert" -> 12 [] OTHER -> 16
        start_generation == CASE biome = "Grass" -> 500 [] biome = "Desert" -> 400 [] OTHER -> 350
        end_offset == CASE biome = "Grass" -> 300 [] biome = "Desert" -> 250 [] OTHER -> 200
        zw == ((width - end_offset) - start_generation) \div num_zones
        zone_start == start_generation + (zone * zw)
    IN  IF biome = "Ice" THEN zone_start + (k * 45) + 30 ELSE zone_start + (k * 50) + 40

DangerZoneCentreNearCheckpoint(zone) ==
    LET centre_x == DangerSlot(zone, 0) - (IF biome = "Ice" THEN 30 ELSE 40) + ((DangerSlot(zone + 1, 0) - DangerSlot(zone, 0)) \div 2)
        centre_y == (height - 50) - (IF biome = "Grass" THEN 32 ELSE 35)
    IN  \E k \in 1..Len(checkpoints) :
            DistSq(centre_x, centre_y, checkpoints[k].x, checkpoints[k].y) < 200 * 200

DangerZoneOutcome ==
    LET zone == sel[seg]
        n == Len(spikes') - Len(spikes)
    IN  /\ SubSeq(spikes', 1, Len(spikes)) = spikes
        /\ n \in 0..2
        /\ DangerZoneCentreNearCheckpoint(zone) => n = 0
        /\ n >= 1 => spikes'[Len(spikes) + 1].x = DangerSlot(zone, 0)
        /\ n = 2 => spikes'[Len(spikes) + 2].x = DangerSlot(zone, 1)

DangerZonesDistinct ==
    LET num_zones == CASE biome = "Grass" -> 10 [] biome = "Desert" -> 12 [] OTHER -> 16
    IN  /\ \A i \in 1..Len(sel) : sel[i] \in 2..(num_zones - 2)
        /\ \A i, j \in 1..Len(sel) : i # j => sel[i] # sel[j]

C23_DangerZoneRuns ==
    [][DangerZoneStep => DangerZonesDistinct /\ DangerZoneOutcome]_vars

\* the run of a danger zone has just placed its two spikes, at the first
\* and at the next slot of the zone
C23_Witness ==
    /\ pc = "danger_run"
    /\ seg > 1 /\ seg <= Len(sel) + 1
    /\ Len(spikes) >= 2
    /\ spikes[Len(spikes) - 1].x = DangerSlot(sel[seg - 1], 0)
    /\ spikes[Len(spikes)].x = DangerSlot(sel[seg - 1], 1)

\* ---------------------------------------------------------------------------
\* C24: platform-top spikes. Every spike created by the platform-top pass
\* has its bottom edge y + height equal to the top y of the platform it was
\* generated for and its horizontal extent [x, x + width] inside that
\* platform's span; the selected platforms are distinct non-ground platforms
\* (y < height - 100) of the blueprint, and a platform that received its
\* spike is not tried again
TopSpikePlaced == pc = "pspike_try" /\ Len(spikes') = Len(spikes) + 1

SelectedPlatformsDistinct ==
    /\ \A i \in 1..Len(sel) :
            /\ sel[i].y < height - 100
            /\ \E j \in 1..Len(platforms) : platforms[j] = sel[i]
    /\ \A i, j \in 1..Len(sel) : i # j => sel[i] # sel[j]

C24_PlatformTopSpikes ==
    [][TopSpikePlaced =>
           LET s == spikes'[Len(spikes')]
               p == sel[seg]
           IN  /\ SelectedPlatformsDistinct
               /\ s.y + s.height = p.y
               /\ p.x <= s.x
               /\ s.x + s.width <= p.x + p.width
               /\ seg' = seg + 1]_vars

\* the platform-top pass has just placed a spike on the platform before
\* sel[seg], with more than one platform selected
C24_Witness ==
    /\ pc = "pspike_try"
    /\ Len(sel) >= 2
    /\ seg > 1 /\ seg <= Len(sel) + 1
    /\ Len(spikes) > 0
    /\ spikes[Len(spikes)].y + spikes[Len(spikes)].height = sel[seg - 1].y
    /\ spikes[Len(spikes)].x >= sel[seg - 1].x
    /\ spikes[Len(spikes)].x + spikes[Len(spikes)].width <= sel[seg - 1].x + sel[seg - 1].width

\* ---------------------------------------------------------------------------
\* C25: every power-up of a blueprint lies after the spawn safe zone: its x
\* is at least POWERUP_SAFE_ZONE (600), in both placement modes
C25_PowerupsAfterSafeZone ==
    \A i \in 1..Len(powerups) : powerups[i].x >= POWERUP_SAFE_ZONE

\* ---------------------------------------------------------------------------
\* C26: in the Grass segment pass the reachability validation never rejects
\* a candidate: the from-ground test holds for every y the pass draws, so a
\* candidate that passes the checkpoint, overlap and spacing validations is
\* committed, even more than MAX_JUMP_HEIGHT above the ground with no other
\* platform within MAX_JUMP_DISTANCE
PassesFirstThreeValidations ==
    /\ DrawsCandidate
    /\ ~is_near_checkpoint(platform_candidate.x, platform_candidate.y, checkpoints, CHECKPOINT_SAFE_RADIUS)
    /\ ~OverlapsPlatform(platform_candidate.x, platform_candidate.y, platform_candidate.width, PCfg.platform_height, platforms)
    /\ ~TooClose(platform_candidate.x, platform_candidate.y, platforms)

StartingPlatformsEmitted == pc \notin {"start", "checkpoints", "platforms", "fn_call", "fn_ret"}

FirstStartingPlatform ==
    CASE biome = "Grass" -> Rect(150, height - 150, 150, 20)
      [] biome = "Desert" -> Rect(180, height - 180, 120, 18)
      [] OTHER -> Rect(220, height - 200, 85, 15)

SecondStartingPlatform ==
    CASE biome = "Grass" -> Rect(350, height - 220, 130, 20)
      [] biome = "Desert" -> Rect(380, height - 240, 110, 18)
      [] OTHER -> Rect(450, height - 280, 80, 15)

HasPlatform(r) == \E j \in 1..Len(platforms) : platforms[j] = r

C28_GrassFinalsExclusive ==
    biome = "Grass" =>
        ~(/\ HasPlatform(Rect(width - 400, height - 170, 150, 20))
          /\ HasPlatform(Rect(width - 220, height - 140, 120, 20)))

\* a returned Grass blueprint with final_platform_1 and without
\* final_platform_2, which is not near a checkpoint and was turned down by
\* the spacing test
C28_Witness ==
    /\ biome = "Grass"
    /\ pc = "done"
    /\ HasPlatform(Rect(width - 400, height - 170, 150, 20))
    /\ ~HasPlatform(Rect(width - 220, height - 140, 120, 20))
    /\ ~is_near_checkpoint(width - 220, height - 140, checkpoints, CHECKPOINT_SAFE_RADIUS)

\* ---------------------------------------------------------------------------
\* C29: every Ice blueprint has an empty enemies list: add_enemies needs a
\* platform with x >= 500 and width >= 120, every Ice platform other than
\* the ground is at most 95 wide, and the ground has x = 0
C29_IceHasNoEnemies ==
    biome = "Ice" =>
        /\ enemies = <<>>
        /\ \A j \in 1..Len(platforms) : platforms[j].width <= 95 \/ platforms[j].x = 0

\* a returned Ice blueprint with a platform past the enemy safe zone that is
\* at least 80 wide: it reached the spawn roll of add_enemies and was then
\* turned down for its width
C29_Witness ==
    /\ biome = "Ice"
    /\ pc = "done"
    /\ enemies = <<>>
    /\ \E j \in 1..Len(platforms) : platforms[j].x >= 500 /\ platforms[j].width >= 80

\* ---------------------------------------------------------------------------
\* C30: no enemy is placed on the ground platform, in any biome: the ground
\* is skipped for its x = 0 before the ground spawn probability is used (no
\* random draw is made for it), and every enemy has x >= 540 and
\* y <= height - 180
EnemyStepOnGround ==
    /\ pc = "enemies"
    /\ seg <= Len(platforms)
    /\ platforms[seg].y >= height - 60

====
